---------------------------- MODULE Spec2Model ----------------------------
(***************************************************************************)
(* Sunset Cityscape (src/main.cpp): the animation state, the timer         *)
(* callback update, the keyboard callback, the display callback and the    *)
(* GLUT event loop that dispatches them.                                   *)
(*                                                                         *)
(* Every animation quantity of the program is a C float.  A float is       *)
(* modelled as the pair <<m, e>> that stands for m * 2^e, with             *)
(* 2^23 <= |m| < 2^24 (a 24-bit significand) or <<0, 0>> for zero, and     *)
(* the arithmetic is IEEE-754 binary32 with round-to-nearest-even, every   *)
(* operation rounded to float (FLT_EVAL_METHOD 0).  No value of the        *)
(* program comes near the exponent limits, so there are no subnormals,     *)
(* infinities or NaNs.                                                     *)
(***************************************************************************)
EXTENDS Integers, Sequences, FiniteSets, TLC

(***************************************************************************)
(* binary32 arithmetic                                                     *)
(***************************************************************************)
Abs(n) == IF n < 0 THEN -n ELSE n

Sgn(n) == IF n < 0 THEN -1 ELSE 1

Pow2(k) == 2 ^ k

\* Number of low bits of a (2^23 <= a < 2^31) that do not fit in 24 bits.
ExcessBits(a) ==
    IF a >= Pow2(30) THEN 7
    ELSE CHOOSE k \in 0..6 : a < Pow2(24 + k) /\ (k = 0 \/ a >= Pow2(23 + k))

\* Number of positions a (0 < a < 2^23) is shifted left to fill 24 bits.
MissingBits(a) ==
    CHOOSE j \in 1..23 : Pow2(23 - j) <= a /\ a < Pow2(24 - j)

\* The float nearest to n * 2^e, ties to the even significand (|n| < 2^31).
F32Round(n, e) ==
    IF n = 0 THEN <<0, 0>>
    ELSE LET a == Abs(n)
             s == Sgn(n)
         IN  IF a < Pow2(23)
             THEN LET j == MissingBits(a) IN <<s * a * Pow2(j), e - j>>
             ELSE LET k == ExcessBits(a)
                  IN  IF k = 0 THEN <<n, e>>
                      ELSE LET q  == a \div Pow2(k)
                               r  == a % Pow2(k)
                               h  == Pow2(k - 1)
                               up == r > h \/ (r = h /\ q % 2 = 1)
                               q2 == IF up THEN q + 1 ELSE q
                           IN  IF q2 = Pow2(24)
                               THEN <<s * Pow2(23), e + k + 1>>
                               ELSE <<s * q2, e + k>>

\* x + y rounded to float.  With exponents at most 5 apart the sum is formed
\* exactly; otherwise the smaller operand is shifted right and the bits lost
\* are kept as one sticky bit below the rounding position.
F32Add(x, y) ==
    IF x[1] = 0 THEN y
    ELSE IF y[1] = 0 THEN x
    ELSE LET hi == IF x[2] >= y[2] THEN x ELSE y
             lo == IF x[2] >= y[2] THEN y ELSE x
             d  == hi[2] - lo[2]
         IN  IF d <= 5
             THEN F32Round(hi[1] * Pow2(d) + lo[1], lo[2])
             ELSE LET sh == d - 5
                      al == Abs(lo[1])
                      q  == IF sh >= 25 THEN 0 ELSE al \div Pow2(sh)
                      st == IF sh >= 25 THEN 1
                            ELSE IF al % Pow2(sh) # 0 THEN 1 ELSE 0
                  IN  F32Round(hi[1] * 64 + Sgn(lo[1]) * (2 * q + st),
                               hi[2] - 6)

\* n * 2^e is a float as it stands: no bit is lost in rounding it.
F32Fits(n) ==
    Abs(n) < Pow2(24) \/ Abs(n) % Pow2(ExcessBits(Abs(n))) = 0

\* The sum x + y is a float as it stands, so F32Add(x, y) is x + y exactly.
F32AddIsExact(x, y) ==
    IF x[1] = 0 \/ y[1] = 0 THEN TRUE
    ELSE LET hi == IF x[2] >= y[2] THEN x ELSE y
             lo == IF x[2] >= y[2] THEN y ELSE x
             d  == hi[2] - lo[2]
         IN  IF d <= 5
             THEN F32Fits(hi[1] * Pow2(d) + lo[1])
             ELSE /\ d - 5 < 25
                  /\ Abs(lo[1]) % Pow2(d - 5) = 0
                  /\ F32Fits(hi[1] * 32 + lo[1] \div Pow2(d - 5))

F32Neg(x) == <<-x[1], x[2]>>

F32Sub(x, y) == F32Add(x, F32Neg(y))

\* Comparisons are exact: a rounded difference keeps the sign of the exact one.
F32Lt(x, y) == F32Sub(x, y)[1] < 0

F32Gt(x, y) == F32Lt(y, x)

F32Ge(x, y) == ~F32Lt(x, y)

F32Max(x, y) == IF F32Lt(x, y) THEN y ELSE x

\* fmodf(x, y) for 0 <= x, 0 < y, y a multiple of the unit of x whenever
\* x >= y (true of 6.0f and 100000.0f over the timer's range): exact.
F32Fmod(x, y) ==
    IF F32Lt(x, y) THEN x
    ELSE LET yu == y[1] \div Pow2(x[2] - y[2])
         IN  F32Round(x[1] % yu, x[2])


\* The float a decimal literal num/den denotes, e its binary exponent:
\* the quotient num * 2^(-e) / den rounded to the nearest (even) integer.
F32Lit(num, den, e) ==
    LET n == num * Pow2(-e)
        q == n \div den
        r == n % den
    IN  IF 2 * r > den \/ (2 * r = den /\ q % 2 = 1) THEN <<q + 1, e>>
        ELSE <<q, e>>

\* The float of a small integer (exact).
F32Int(n) == F32Round(n, 0)

(***************************************************************************)
(* Program constants and initial values (src/main.cpp 13-30).              *)
(***************************************************************************)
V_WIDTH == F32Int(800)

InitBoatPos == F32Int(-120)

InitBoatSpeed == F32Lit(6, 5, -23)           \* 1.2f

InitTrainPos == F32Int(-520)

InitTrainSpeed == F32Lit(14, 5, -22)         \* 2.8f

Dt == F32Lit(2, 125, -29)                    \* 0.016f

SpeedStep == F32Lit(1, 5, -26)               \* 0.2f

TrainLimit == F32Add(V_WIDTH, F32Int(360))   \* V_WIDTH + 360.0f

TrainRestart == F32Int(-760)

BoatLimit == F32Add(V_WIDTH, F32Int(120))    \* V_WIDTH + 120.0f

BoatRestart == F32Int(-150)

TimerLimit == F32Int(100000)

Cycle == F32Int(6)

GreenFrom == F32Lit(5, 2, -22)               \* 2.5f

YellowFrom == F32Int(5)

Phases == {F32Int(0), F32Int(3)}

\* ESC, space, '+', '-', and 'a' standing for every other key.
KeyEsc == 27

KeySpace == 32

KeyPlus == 43

KeyMinus == 45

KeyOther == 97

Keys == {KeyEsc, KeySpace, KeyPlus, KeyMinus, KeyOther}

(***************************************************************************)
(* State.  The first seven variables are the program's globals.            *)
(*   timers      update callbacks registered with glutTimerFunc and not    *)
(*               yet fired                                                 *)
(*   redisplay   glutPostRedisplay has been called (or the window is new)  *)
(*               and display has not run since                             *)
(*   exited      exit(0) has been called                                   *)
(*   rng         the state of the C library's generator behind rand(): the *)
(*               seed of the last srand and the routines that have drawn   *)
(*               numbers from it since                                     *)
(*   frame       what the last display call drew: the animation values it  *)
(*               read and the lamps it lit on the two signals              *)
(* History variables, read by no handler:                                  *)
(*   ticks, presses   update calls and keyboard calls so far               *)
(*   lastKey     the key of the last keyboard call (0: none yet)           *)
(*   speedBefore trainSpeed when the last keyboard call was entered        *)
(*   written     the four animation values as the last update left them    *)
(*   posted      the four animation values at the last glutPostRedisplay   *)
(*   unwrapped   the traffic timer accumulated without the fmodf           *)
(*   trainResets, boatResets   the resets of the two positions so far      *)
(*   trainSeen   some update since the last reset of the train (or since   *)
(*               the start) has left a part of the train in the viewport   *)
(***************************************************************************)
VARIABLES boatPos, boatSpeed, waterTime, trainPos, trainSpeed, paused,
          trafficTimer, timers, redisplay, exited, frame,
          ticks, presses, lastKey, speedBefore, written, posted,
          unwrapped, trainResets, boatResets, rng, trainSeen

vars == <<boatPos, boatSpeed, waterTime, trainPos, trainSpeed, paused,
          trafficTimer, timers, redisplay, exited, frame,
          ticks, presses, lastKey, speedBefore, written, posted,
          unwrapped, trainResets, boatResets, rng, trainSeen>>

AnimationState == <<trainPos, trainSpeed, boatPos, boatSpeed, waterTime,
                    trafficTimer, paused>>

Animated == <<trainPos, boatPos, waterTime, trafficTimer>>

NoFrame == [drawn |-> FALSE]

(***************************************************************************)
(* drawTrafficSignal (src/main.cpp 443-446, 462-476): the lamps lit for a  *)
(* timer value and a phase offset.                                         *)
(***************************************************************************)
\* Mutant: the phase offset is left out.
SignalTNoPhase(timer, phaseOffsetSec) == F32Fmod(timer, Cycle)

SignalT(timer, phaseOffsetSec) == F32Fmod(F32Add(timer, phaseOffsetSec), Cycle)

redOn(t) == F32Lt(t, GreenFrom)

greenOn(t) == F32Ge(t, GreenFrom) /\ F32Lt(t, YellowFrom)

\* Mutant: the lamp misses the first instant of its band.
yellowOnStrict(t) == F32Gt(t, YellowFrom)

yellowOn(t) == F32Ge(t, YellowFrom)

drawTrafficSignal(timer, phaseOffsetSec) ==
    LET t == SignalT(timer, phaseOffsetSec)
    IN  (IF redOn(t) THEN {"RED"} ELSE {})
        \cup (IF greenOn(t) THEN {"GREEN"} ELSE {})
        \cup (IF yellowOn(t) THEN {"YELLOW"} ELSE {})

(***************************************************************************)
(* The x-ranges the moving objects cover on screen.  drawTrain (496-522)   *)
(* translates by trainPos and draws car number c (0 to 3) from             *)
(* -c * (140 + 8) to -c * (140 + 8) + 140; drawSpeedBoat (728-747)         *)
(* translates by boatPos, scales by 1.4 and draws the hull from 0 to 120.  *)
(* The projection set up by init (939) shows x from 0 to V_WIDTH.          *)
(***************************************************************************)
TrainLeft(pos) == F32Sub(pos, F32Int(444))

TrainRight(pos) == F32Add(pos, F32Int(140))

BoatLeft(pos) == pos

BoatRight(pos) == F32Add(pos, F32Int(168))

InView(left, right) == F32Ge(right, F32Int(0)) /\ ~F32Gt(left, V_WIDTH)

TrainInView(pos) == InView(TrainLeft(pos), TrainRight(pos))

BoatInView(pos) == InView(BoatLeft(pos), BoatRight(pos))

(***************************************************************************)
(* update (src/main.cpp 890-909), one timer callback run to completion.    *)
(***************************************************************************)
\* Mutant: the train is reset on reaching the limit, not on passing it.
TrainWrapsAtLimit(pos, speed) == F32Ge(F32Add(pos, speed), TrainLimit)

TrainWraps(pos, speed) == F32Gt(F32Add(pos, speed), TrainLimit)

\* Mutant: the train advances and is never reset.
TrainAdvanceNoReset(pos, speed) == F32Add(pos, speed)

TrainAdvance(pos, speed) ==
    IF TrainWraps(pos, speed) THEN TrainRestart ELSE F32Add(pos, speed)

BoatWraps(pos, speed) == F32Gt(F32Add(pos, speed), BoatLimit)

\* Mutant: the boat restarts from its initial position.
BoatAdvanceToStart(pos, speed) ==
    IF F32Gt(F32Add(pos, speed), BoatLimit) THEN InitBoatPos
    ELSE F32Add(pos, speed)

BoatAdvance(pos, speed) ==
    IF BoatWraps(pos, speed) THEN BoatRestart ELSE F32Add(pos, speed)

\* Mutant: the timer advances by 0.16f.
TimerAdvanceCoarse(timer) == F32Add(timer, F32Lit(4, 25, -26))

TimerAdvance(timer) ==
    LET t == F32Add(timer, Dt)
    IN  IF F32Ge(t, TimerLimit) THEN F32Fmod(t, TimerLimit) ELSE t

\* Mutant: the water advances inside the pause test.
WaterAdvanceUnlessPaused(w) == IF paused THEN w ELSE F32Add(w, Dt)

WaterAdvance(w) == F32Add(w, Dt)

\* Mutant: update requests the redraw before it advances the state.
PostedBeforeAdvance(before, after) == before

\* The values glutPostRedisplay finds: update calls it after the advance.
PostedByUpdate(before, after) == after

\* Mutant: update does not register its successor.
TimersNotRearmed(n) == n - 1

\* Callbacks update leaves registered: the fired one is gone, one is added.
TimersAfterUpdate(n) == n - 1 + 1

update ==
    /\ ~exited
    /\ timers > 0
    /\ trainPos' = IF paused THEN trainPos ELSE TrainAdvance(trainPos, trainSpeed)
    /\ boatPos' = IF paused THEN boatPos ELSE BoatAdvance(boatPos, boatSpeed)
    /\ trafficTimer' = IF paused THEN trafficTimer ELSE TimerAdvance(trafficTimer)
    /\ waterTime' = WaterAdvance(waterTime)
    /\ redisplay' = TRUE
    /\ timers' = TimersAfterUpdate(timers)
    /\ ticks' = ticks + 1
    /\ written' = Animated'
    /\ posted' = PostedByUpdate(Animated, Animated')
    /\ unwrapped' = IF paused THEN unwrapped ELSE F32Add(unwrapped, Dt)
    /\ trainResets' = IF ~paused /\ TrainWraps(trainPos, trainSpeed)
                      THEN trainResets + 1 ELSE trainResets
    /\ boatResets' = IF ~paused /\ BoatWraps(boatPos, boatSpeed)
                     THEN boatResets + 1 ELSE boatResets
    /\ trainSeen' = IF ~paused /\ TrainWraps(trainPos, trainSpeed) THEN FALSE
                    ELSE trainSeen \/ TrainInView(trainPos')
    /\ UNCHANGED <<trainSpeed, boatSpeed, paused, exited, frame, presses,
                   lastKey, speedBefore, rng>>

(***************************************************************************)
(* keyboard (src/main.cpp 912-927).                                        *)
(***************************************************************************)
SpeedUp(speed) == F32Add(speed, SpeedStep)

\* Mutant: '-' without the clamp.
SlowDownUnclamped(speed) == F32Sub(speed, SpeedStep)

SlowDown(speed) == F32Max(SpeedStep, F32Sub(speed, SpeedStep))

ExitOnKey(key) == key = KeyEsc

PauseOnKey(key, p) == IF key = KeySpace THEN ~p ELSE p

\* Mutant: the case of space falls through into the case of '+'.
SpeedOnKeyFallThrough(key, speed) ==
    CASE key \in {KeySpace, KeyPlus} -> F32Add(speed, SpeedStep)
      [] key = KeyMinus -> F32Max(SpeedStep, F32Sub(speed, SpeedStep))
      [] OTHER          -> speed

SpeedOnKey(key, speed) ==
    CASE key = KeyPlus  -> SpeedUp(speed)
      [] key = KeyMinus -> SlowDown(speed)
      [] OTHER          -> speed

keyboard(key) ==
    /\ ~exited
    /\ exited' = ExitOnKey(key)
    /\ paused' = PauseOnKey(key, paused)
    /\ trainSpeed' = SpeedOnKey(key, trainSpeed)
    /\ presses' = presses + 1
    /\ lastKey' = key
    /\ speedBefore' = trainSpeed
    /\ UNCHANGED <<trainPos, boatPos, boatSpeed, waterTime, trafficTimer,
                   timers, redisplay, frame, ticks, written, posted,
                   unwrapped, trainResets, boatResets, rng, trainSeen>>

(***************************************************************************)
(* The generator behind rand().  The C library fixes the numbers rand()    *)
(* returns by the seed given to the last srand and by how many numbers     *)
(* have been drawn since; the state is kept as that seed and the routines  *)
(* that have drawn since, each of which draws a number of values that      *)
(* depends on nothing but the generator.  Each routine below maps the      *)
(* generator state it is entered with to the state it leaves.              *)
(***************************************************************************)
srand(seed) == [seed |-> seed, used |-> <<>>]

\* frandf and rand (33-35) called by a routine: the state moves on.
frandf(g, routine) == [g EXCEPT !.used = Append(@, routine)]

\* 220-235: 360 dots, two numbers each, no srand.
drawHalftoneBand(g) == frandf(g, "drawHalftoneBand")

\* 266-285: srand(seed), then seven numbers per cloud.
drawCloudLayer(g, seed) == frandf(srand(seed), "drawCloudLayer")

\* 313-326 with 289-311: srand(seed), then every building reseeds with
\* seed + i * 31 and draws its windows.
drawSkylineLayer(g, seed) == frandf(srand(seed), "drawSkylineLayer")

\* 329-366: 18 reflections, five numbers each, no srand.
drawBridgeAndWater(g) == frandf(g, "drawBridgeAndWater")

\* 368-393: srand(seed) and no number drawn.
drawPowerPillar(g, seed) == srand(seed)

\* 417-427: a pillar at x = 60, 200, 340, 480 and 620, seeded with x.
drawPowerPillarsAndWires(g) ==
    drawPowerPillar(drawPowerPillar(drawPowerPillar(drawPowerPillar(
        drawPowerPillar(g, 60), 200), 340), 480), 620)

\* 496-522: four cars of four windows, two numbers each, no srand.
drawTrain(g) == frandf(g, "drawTrain")

\* 562-573: 180 lights, three numbers each, no srand.
drawDistantLights(g) == frandf(g, "drawDistantLights")

\* The generator state each drawing routine without its own srand is
\* entered with in a display call that starts from state g, and the state
\* the call leaves (835-887, in the order of the calls).
Generator(g) ==
    LET afterBand == drawHalftoneBand(g)
        afterClouds == drawCloudLayer(drawCloudLayer(afterBand, 11), 23)
        afterSkyline ==
            drawSkylineLayer(drawSkylineLayer(afterClouds, 101), 142)
        afterBridge == drawBridgeAndWater(afterSkyline)
        afterPillars == drawPowerPillarsAndWires(afterBridge)
        afterTrain == drawTrain(afterPillars)
        afterLights == drawDistantLights(afterTrain)
    IN  [band |-> g, bridge |-> afterSkyline, train |-> afterPillars,
         lights |-> afterTrain, left |-> afterLights]

\* The generator state a display call entered with state g leaves.
GeneratorLeft(g) == Generator(g).left

(***************************************************************************)
(* display (src/main.cpp 835-887): reads the animation state and draws.    *)
(* Of the frame, the model keeps the values the moving parts are drawn     *)
(* from, the lamps lit by drawTrafficSignals (483-491), the generator      *)
(* states the randomly placed parts (halftone dots, bridge reflections,    *)
(* train windows, distant lights) are drawn from, and, as history, the     *)
(* animation state at the call and what the last update had written.       *)
(***************************************************************************)
Drawn ==
    [drawn |-> TRUE, train |-> trainPos, boat |-> boatPos,
     water |-> waterTime, timer |-> trafficTimer,
     sig0 |-> drawTrafficSignal(trafficTimer, F32Int(0)),
     sig3 |-> drawTrafficSignal(trafficTimer, F32Int(3)),
     dots |-> Generator(rng).band,
     reflections |-> Generator(rng).bridge,
     windows |-> Generator(rng).train,
     lights |-> Generator(rng).lights,
     state |-> AnimationState, asof |-> written]

display ==
    /\ ~exited
    /\ frame' = Drawn
    /\ redisplay' = FALSE
    /\ rng' = GeneratorLeft(rng)
    /\ UNCHANGED <<boatPos, boatSpeed, waterTime, trainPos, trainSpeed,
                   paused, trafficTimer, timers, exited, ticks, presses,
                   lastKey, speedBefore, written, posted, unwrapped,
                   trainResets, boatResets, trainSeen>>

(***************************************************************************)
(* main (src/main.cpp 946-956): the state when glutMainLoop is entered.    *)
(* The globals hold their initialisers, glutTimerFunc(0, update, 0) has    *)
(* registered one callback and the new window awaits its first display.    *)
(* init (930-944) has seeded the generator with the time of the start, in  *)
(* seconds; one start time stands for all, no seed of the program's own    *)
(* srand calls being a time of day of this century.                        *)
(***************************************************************************)
ClockSeeds == {1790000000}

Init ==
    /\ boatPos = InitBoatPos
    /\ boatSpeed = InitBoatSpeed
    /\ waterTime = F32Int(0)
    /\ trainPos = InitTrainPos
    /\ trainSpeed = InitTrainSpeed
    /\ paused = FALSE
    /\ trafficTimer = F32Int(0)
    /\ timers = 1
    /\ redisplay = TRUE
    /\ exited = FALSE
    /\ frame = NoFrame
    /\ ticks = 0
    /\ presses = 0
    /\ lastKey = 0
    /\ speedBefore = InitTrainSpeed
    /\ written = <<InitTrainPos, InitBoatPos, F32Int(0), F32Int(0)>>
    /\ posted = <<InitTrainPos, InitBoatPos, F32Int(0), F32Int(0)>>
    /\ unwrapped = F32Int(0)
    /\ trainResets = 0
    /\ boatResets = 0
    /\ rng \in {srand(clock) : clock \in ClockSeeds}
    /\ trainSeen = FALSE

(***************************************************************************)
(* Spec: the event loop, every interleaving of the three callbacks, cut    *)
(* after MaxTicks timer callbacks and MaxKeys key presses.                 *)
(***************************************************************************)
MaxTicks == 5

MaxKeys == 3

Timer == ticks < MaxTicks /\ update

Key == presses < MaxKeys /\ \E key \in Keys : keyboard(key)

Redraw == display

Next == Timer \/ Key \/ Redraw

Spec == Init /\ [][Next]_vars

(***************************************************************************)
(* KeySpec: long sequences of key presses, up to MaxPresses, with at most  *)
(* KeyTicks timer callbacks among them.                                    *)
(***************************************************************************)
MaxPresses == 14

KeyTicks == 1

KeyPress == presses < MaxPresses /\ \E key \in Keys : keyboard(key)

KeyTimer == ticks < KeyTicks /\ update

NextKey == KeyPress \/ KeyTimer

KeySpec == Init /\ [][NextKey]_vars

(***************************************************************************)
(* RunSpec: long runs.  At most MaxStartKeys keys are pressed before the   *)
(* first timer callback, then up to RunTicks callbacks follow, each frame  *)
(* displayed before the next callback fires (the 16 ms between two         *)
(* callbacks are enough for the redraw).                                   *)
(***************************************************************************)
MaxStartKeys == 1

RunTicks == 900

StartKey == ticks = 0 /\ presses < MaxStartKeys /\ \E key \in Keys : keyboard(key)

RunTimer == ticks < RunTicks /\ ~redisplay /\ update

NextRun == StartKey \/ RunTimer \/ Redraw

RunSpec == Init /\ [][NextRun]_vars

(***************************************************************************)
(* LateSpec: the program hours into a run.  Each checkpoint is the state   *)
(* update has produced after that many callbacks with no key pressed       *)
(* (src/main.cpp 890-909 iterated from the initial values in binary32):    *)
(* shortly before the timer reads 16382 s (4.6 hours of ticks) and shortly *)
(* before it reaches 100000 s (28.4 hours of ticks; between 8192 s and     *)
(* 100000 s a tick adds 2^-6 s, the float nearest to 0.016 in units of the *)
(* timer).  From a checkpoint LateTicks more callbacks run, each followed  *)
(* by its redraw.                                                          *)
(***************************************************************************)
Checkpoints ==
    { [ticks |-> 1033130, train |-> <<-15820430, -15>>,
       boat |-> <<14784884, -17>>, timer |-> <<16768943, -10>>,
       water |-> <<16768943, -10>>, unwrapped |-> <<16768943, -10>>,
       trainResets |-> 1506, boatResets |-> 1158, seen |-> FALSE],
      [ticks |-> 6384900, train |-> <<10236656, -15>>,
       boat |-> <<14863662, -14>>, timer |-> <<12799658, -7>>,
       water |-> <<12799658, -7>>, unwrapped |-> <<12799658, -7>>,
       trainResets |-> 9307, boatResets |-> 7157, seen |-> TRUE] }

LateTicks == 460

\* The generator in every display call but the first: entered with the
\* state the call before it has left.
LaterFrames == Generator(GeneratorLeft(srand(0)))

InitLate ==
    \E c \in Checkpoints :
        /\ boatPos = c.boat
        /\ boatSpeed = InitBoatSpeed
        /\ waterTime = c.water
        /\ trainPos = c.train
        /\ trainSpeed = InitTrainSpeed
        /\ paused = FALSE
        /\ trafficTimer = c.timer
        /\ timers = 1
        /\ redisplay = FALSE
        /\ exited = FALSE
        /\ frame = [drawn |-> TRUE, train |-> c.train, boat |-> c.boat,
                    water |-> c.water, timer |-> c.timer,
                    sig0 |-> drawTrafficSignal(c.timer, F32Int(0)),
                    sig3 |-> drawTrafficSignal(c.timer, F32Int(3)),
                    dots |-> LaterFrames.band,
                    reflections |-> LaterFrames.bridge,
                    windows |-> LaterFrames.train,
                    lights |-> LaterFrames.lights,
                    state |-> <<c.train, InitTrainSpeed, c.boat,
                                InitBoatSpeed, c.water, c.timer, FALSE>>,
                    asof |-> <<c.train, c.boat, c.water, c.timer>>]
        /\ ticks = c.ticks
        /\ presses = 0
        /\ lastKey = 0
        /\ speedBefore = InitTrainSpeed
        /\ written = <<c.train, c.boat, c.water, c.timer>>
        /\ posted = <<c.train, c.boat, c.water, c.timer>>
        /\ unwrapped = c.unwrapped
        /\ trainResets = c.trainResets
        /\ boatResets = c.boatResets
        /\ rng = LaterFrames.left
        /\ trainSeen = c.seen

LateTimer ==
    /\ \E c \in Checkpoints : c.ticks <= ticks /\ ticks < c.ticks + LateTicks
    /\ ~redisplay
    /\ update

NextLate == LateTimer \/ Redraw

LateSpec == InitLate /\ [][NextLate]_vars

(***************************************************************************)
(* FastSpec: the program hours into a run and after many presses of '+'.   *)
(* trainSpeed is what keyboard (920-921) has made of 2.8f after that many  *)
(* '+' presses, each adding 0.2f in binary32: 1919.8253 after 9586 presses *)
(* and 4194304, where adding 0.2f changes nothing any more, from press     *)
(* 18073707 on.  The presses have come between the last callback of a      *)
(* checkpoint and the next; up to MaxFastKeys more keys follow, and then   *)
(* up to FastTicks callbacks, each followed by its redraw.                 *)
(***************************************************************************)
Speeds ==
    { [presses |-> 0, key |-> 0, speed |-> InitTrainSpeed,
       before |-> InitTrainSpeed],
      [presses |-> 9586, key |-> KeyPlus, speed |-> <<15727209, -13>>,
       before |-> <<15725571, -13>>],
      [presses |-> 18073707, key |-> KeyPlus, speed |-> <<8388608, -1>>,
       before |-> <<8388608, -1>>] }

MaxFastKeys == 1

FastTicks == 320

InitFast ==
    \E c \in Checkpoints, v \in Speeds :
        /\ boatPos = c.boat
        /\ boatSpeed = InitBoatSpeed
        /\ waterTime = c.water
        /\ trainPos = c.train
        /\ trainSpeed = v.speed
        /\ paused = FALSE
        /\ trafficTimer = c.timer
        /\ timers = 1
        /\ redisplay = FALSE
        /\ exited = FALSE
        /\ frame = [drawn |-> TRUE, train |-> c.train, boat |-> c.boat,
                    water |-> c.water, timer |-> c.timer,
                    sig0 |-> drawTrafficSignal(c.timer, F32Int(0)),
                    sig3 |-> drawTrafficSignal(c.timer, F32Int(3)),
                    dots |-> LaterFrames.band,
                    reflections |-> LaterFrames.bridge,
                    windows |-> LaterFrames.train,
                    lights |-> LaterFrames.lights,
                    state |-> <<c.train, v.speed, c.boat, InitBoatSpeed,
                                c.water, c.timer, FALSE>>,
                    asof |-> <<c.train, c.boat, c.water, c.timer>>]
        /\ ticks = c.ticks
        /\ presses = v.presses
        /\ lastKey = v.key
        /\ speedBefore = v.before
        /\ written = <<c.train, c.boat, c.water, c.timer>>
        /\ posted = <<c.train, c.boat, c.water, c.timer>>
        /\ unwrapped = c.unwrapped
        /\ trainResets = c.trainResets
        /\ boatResets = c.boatResets
        /\ rng = LaterFrames.left
        /\ trainSeen = c.seen

FastKey ==
    /\ \E c \in Checkpoints : ticks = c.ticks
    /\ \E v \in Speeds :
           v.presses <= presses /\ presses < v.presses + MaxFastKeys
    /\ \E key \in Keys : keyboard(key)

FastTimer ==
    /\ \E c \in Checkpoints : c.ticks <= ticks /\ ticks < c.ticks + FastTicks
    /\ ~redisplay
    /\ update

NextFast == FastKey \/ FastTimer \/ Redraw

FastSpec == InitFast /\ [][NextFast]_vars

(***************************************************************************)
(* Steps, told apart by the history variables.                             *)
(***************************************************************************)
TickStep == ticks' = ticks + 1

KeyStep == presses' = presses + 1

(***************************************************************************)
(* C1.  As claimed: on every tick waterTime increases by exactly 0.016,    *)
(* paused or not, and a paused tick leaves trainPos, boatPos and           *)
(* trafficTimer unchanged.  The sum waterTime + 0.016f is rounded to       *)
(* float, so the increase is exact only when the sum is a float.           *)
(***************************************************************************)
C1_ExactIncrease ==
    [][TickStep =>
        /\ waterTime' = F32Add(waterTime, Dt)
        /\ F32AddIsExact(waterTime, Dt)
        /\ (paused => /\ trainPos' = trainPos
                      /\ boatPos' = boatPos
                      /\ trafficTimer' = trafficTimer)]_vars

(***************************************************************************)
(* C1, amended.  On every tick, paused or not, waterTime becomes the float *)
(* nearest to waterTime + 0.016f and never decreases; a paused tick leaves *)
(* trainPos, boatPos and trafficTimer exactly unchanged.                   *)
(***************************************************************************)
C1_RoundedIncrease ==
    [][TickStep =>
        /\ waterTime' = F32Add(waterTime, Dt)
        /\ F32Ge(waterTime', waterTime)
        /\ (paused => /\ trainPos' = trainPos
                      /\ boatPos' = boatPos
                      /\ trafficTimer' = trafficTimer)]_vars

\* A paused tick has run after unpaused ones: the water moved, the rest not.
C1_Witness ==
    /\ paused
    /\ ticks >= 3
    /\ lastKey = KeySpace
    /\ written[3] = waterTime
    /\ F32Gt(waterTime, F32Add(Dt, trafficTimer))
    /\ F32Gt(trafficTimer, F32Int(0))

(***************************************************************************)
(* C2.  In every reachable state trainSpeed >= 0.2 (so it is never zero    *)
(* or negative), and a '-' pressed while trainSpeed is 0.2 leaves it 0.2.  *)
(***************************************************************************)
C2_SpeedFloor ==
    /\ [](F32Ge(trainSpeed, SpeedStep) /\ trainSpeed[1] > 0)
    /\ [][(KeyStep /\ lastKey' = KeyMinus /\ trainSpeed = SpeedStep)
            => trainSpeed' = SpeedStep]_vars

\* A '-' has been pressed with trainSpeed already at the floor.
C2_Witness ==
    /\ lastKey = KeyMinus
    /\ speedBefore = SpeedStep
    /\ trainSpeed = SpeedStep

(***************************************************************************)
(* C7.  A key press changes only the field of its key: space flips paused, *)
(* '+' adds 0.2f to trainSpeed, '-' sets it to max(0.2f, trainSpeed -      *)
(* 0.2f), every other key but ESC changes nothing, and no key changes      *)
(* trainPos, boatPos, boatSpeed, waterTime or trafficTimer.                *)
(***************************************************************************)
C7_KeyFrame ==
    [][KeyStep =>
        /\ <<trainPos, boatPos, boatSpeed, waterTime, trafficTimer>>'
             = <<trainPos, boatPos, boatSpeed, waterTime, trafficTimer>>
        /\ lastKey' = KeySpace =>
             paused' = ~paused /\ trainSpeed' = trainSpeed
        /\ lastKey' = KeyPlus =>
             trainSpeed' = F32Add(trainSpeed, SpeedStep) /\ paused' = paused
        /\ lastKey' = KeyMinus =>
             /\ trainSpeed' = IF F32Lt(F32Sub(trainSpeed, SpeedStep), SpeedStep)
                              THEN SpeedStep
                              ELSE F32Sub(trainSpeed, SpeedStep)
             /\ paused' = paused
        /\ lastKey' \notin {KeyEsc, KeySpace, KeyPlus, KeyMinus} =>
             AnimationState' = AnimationState]_vars

\* Space, '+' and '-' have all been pressed, with ticks before them.
C7_Witness ==
    /\ paused
    /\ lastKey = KeyMinus
    /\ speedBefore = F32Add(InitTrainSpeed, SpeedStep)
    /\ ticks >= 2
    /\ presses = 3

(***************************************************************************)
(* C8.  Whenever a redraw is pending, the state it was requested for is    *)
(* the state the last update wrote (the advance is complete before         *)
(* glutPostRedisplay), and every frame was drawn from the values the last  *)
(* completed update had written, never from a partly advanced state.       *)
(***************************************************************************)
C8_RedrawAfterAdvance ==
    /\ redisplay => posted = written
    /\ frame.drawn =>
         <<frame.train, frame.boat, frame.water, frame.timer>> = frame.asof
    /\ Animated = written

\* A frame has been drawn after the second update, which moved everything.
C8_Witness ==
    /\ frame.drawn
    /\ ~redisplay
    /\ ticks = 2
    /\ frame.asof = written
    /\ F32Gt(frame.train, InitTrainPos)
    /\ F32Gt(frame.timer, Dt)

(***************************************************************************)
(* C10.  Until ESC is pressed exactly one update callback is pending      *)
(* before and after every step (update needs no more to fire again); ESC, *)
(* and only ESC, ends the process, and after it no callback changes        *)
(* anything.                                                               *)
(***************************************************************************)
C10_LoopUntilExit ==
    [][/\ ~exited => timers = 1
       /\ ~exited' => timers' = 1
       /\ exited => UNCHANGED vars
       /\ (exited' /\ ~exited) => (KeyStep /\ lastKey' = KeyEsc)
       /\ (KeyStep /\ lastKey' = KeyEsc) => exited']_vars

\* ESC has been pressed after ticks taken both unpaused and paused.
C10_Witness ==
    /\ exited
    /\ lastKey = KeyEsc
    /\ paused
    /\ ticks >= 3
    /\ timers = 1

(***************************************************************************)
(* Exact (real-number) reference arithmetic for the claims, in integers.   *)
(***************************************************************************)
\* floor(x * 2^12) for a float x of magnitude below 2^18.
Fix12(x) ==
    IF x[2] >= -12 THEN x[1] * Pow2(x[2] + 12)
    ELSE IF -12 - x[2] > 30 THEN (IF x[1] < 0 THEN -1 ELSE 0)
    ELSE x[1] \div Pow2(-12 - x[2])

\* floor(n * x * 2^12) for 0 <= n < 2^10 and a float 0.5 <= x < 2^8: the
\* significand is split so that no product passes 2^31.
MulFix12(n, x) ==
    LET mh == x[1] \div Pow2(12)
        ml == x[1] % Pow2(12)
    IN  n * mh * Pow2(x[2] + 24) + (n * ml) \div Pow2(-12 - x[2])

\* The lamp of the exact (t + p) mod 6 for a float t >= 0 below 2^23 and an
\* integer offset p in 0..5, red on [0, 2.5), green on [2.5, 5), yellow on
\* [5, 6).  The unit is that of t; below 2^-5 the sum t + p needs no
\* reduction and lies in p's band.
ExactBand(t, p) ==
    IF t[1] = 0 \/ t[2] <= -29
    THEN (IF 2 * p < 5 THEN "RED" ELSE IF p < 5 THEN "GREEN" ELSE "YELLOW")
    ELSE LET one == Pow2(-t[2])
             u   == (t[1] + p * one) % (6 * one)
         IN  IF 2 * u < 5 * one THEN "RED"
             ELSE IF u < 5 * one THEN "GREEN"
             ELSE "YELLOW"

(***************************************************************************)
(* C3.  As claimed: from -520, unpaused and at a constant trainSpeed, each *)
(* tick adds trainSpeed exactly (so that after n ticks trainPos is         *)
(* -520 + n * trainSpeed), and the tick on which the sum reaches 1160      *)
(* resets trainPos to -760.                                                *)
(***************************************************************************)
C3_ExactClosedForm ==
    [][(TickStep /\ ~paused) =>
         IF F32Ge(F32Add(trainPos, trainSpeed), F32Int(1160))
         THEN trainPos' = F32Int(-760)
         ELSE /\ trainPos' = F32Add(trainPos, trainSpeed)
              /\ F32AddIsExact(trainPos, trainSpeed)]_vars

\* After n unpaused ticks at a constant speed and no reset, trainPos is
\* within n * 2^-14 + 2^-11 of -520 + n * trainSpeed (n roundings of at most
\* 2^-14 each, and the truncation of the comparison to units of 2^-12).
C3_NearClosedForm ==
    (trainResets = 0 /\ ~paused) =>
        Abs(Fix12(trainPos) - (-520 * 4096 + MulFix12(ticks, trainSpeed)))
            <= ticks \div 4 + 2

(***************************************************************************)
(* C3, amended.  Each unpaused tick sets trainPos to the float sum         *)
(* trainPos + trainSpeed, or to exactly -760 when that sum is greater than *)
(* 1160 (a sum of exactly 1160 is kept), also after a reset; until the     *)
(* first reset trainPos stays within n * 2^-14 + 2^-11 of                  *)
(* -520 + n * trainSpeed.                                                  *)
(***************************************************************************)
C3_RoundedAdvance ==
    [][/\ (TickStep /\ ~paused) =>
            trainPos' = IF F32Gt(F32Add(trainPos, trainSpeed), F32Int(1160))
                        THEN F32Int(-760)
                        ELSE F32Add(trainPos, trainSpeed)
       /\ C3_NearClosedForm
       /\ C3_NearClosedForm']_vars

\* The train has been reset once and has advanced twice from -760.
C3_Witness ==
    /\ trainResets = 1
    /\ ~paused
    /\ trainPos = F32Add(F32Add(F32Int(-760), trainSpeed), trainSpeed)

(***************************************************************************)
(* C4.  On every unpaused tick boatPos becomes the float sum boatPos +     *)
(* boatSpeed, or exactly -150 when that sum exceeds 920; no tick, wrap or  *)
(* key press changes boatSpeed, which stays 1.2f.                          *)
(***************************************************************************)
C4_BoatWrap ==
    [][/\ (TickStep /\ ~paused) =>
            boatPos' = IF F32Gt(F32Add(boatPos, boatSpeed), F32Int(920))
                       THEN F32Int(-150)
                       ELSE F32Add(boatPos, boatSpeed)
       /\ boatSpeed' = boatSpeed
       /\ boatSpeed = F32Lit(6, 5, -23)]_vars

\* The boat has wrapped once and has moved on from -150 at its old speed.
C4_Witness ==
    /\ boatResets = 1
    /\ boatPos = F32Add(F32Int(-150), F32Lit(6, 5, -23))
    /\ boatSpeed = F32Lit(6, 5, -23)

(***************************************************************************)
(* C5.  As claimed: each signal shows the lamp of the exact (t + p) mod 6, *)
(* and the lamps for t and t + 6 are the same.                             *)
(***************************************************************************)
C5_ExactBands ==
    frame.drawn =>
        /\ frame.sig0 = {ExactBand(frame.timer, 0)}
        /\ frame.sig3 = {ExactBand(frame.timer, 3)}
        /\ F32AddIsExact(frame.timer, Cycle) =>
             \A p \in Phases :
                 drawTrafficSignal(F32Add(frame.timer, Cycle), p)
                     = drawTrafficSignal(frame.timer, p)

\* The lamp of a float u in [0, 6).
BandOf(u) ==
    IF F32Lt(u, F32Lit(5, 2, -22)) THEN "RED"
    ELSE IF F32Lt(u, F32Int(5)) THEN "GREEN"
    ELSE "YELLOW"

(***************************************************************************)
(* C5, amended.  With u = fmodf(t + p, 6) as the program evaluates it (the *)
(* sum rounded to float), each signal lights exactly one lamp: red for     *)
(* u < 2.5, green for 2.5 <= u < 5, yellow for 5 <= u.  For p = 0, and for *)
(* p = 3 whenever t + 3 is a float, that is the lamp of the exact          *)
(* (t + p) mod 6; for p = 0 the lamps for t and t + 6 are the same.  At    *)
(* the sample points 0, 2.6, 5.1 and 6 signal 0 is red, green, yellow,     *)
(* red.                                                                    *)
(***************************************************************************)
C5_RoundedBands ==
    /\ frame.drawn =>
        /\ frame.sig0 = {BandOf(F32Fmod(frame.timer, F32Int(6)))}
        /\ frame.sig3 =
             {BandOf(F32Fmod(F32Add(frame.timer, F32Int(3)), F32Int(6)))}
        /\ frame.sig0 = {ExactBand(frame.timer, 0)}
        /\ F32AddIsExact(frame.timer, F32Int(3)) =>
             frame.sig3 = {ExactBand(frame.timer, 3)}
        /\ F32AddIsExact(frame.timer, F32Int(6)) =>
             drawTrafficSignal(F32Add(frame.timer, F32Int(6)), F32Int(0))
                 = frame.sig0
    /\ drawTrafficSignal(F32Int(0), F32Int(0)) = {"RED"}
    /\ drawTrafficSignal(F32Lit(13, 5, -22), F32Int(0)) = {"GREEN"}
    /\ drawTrafficSignal(F32Lit(51, 10, -21), F32Int(0)) = {"YELLOW"}
    /\ drawTrafficSignal(F32Int(6), F32Int(0)) = {"RED"}

\* A frame in which the rounding of t + 3 has moved signal 3 on to yellow
\* while the exact (t + 3) mod 6 is still in the green band.
C5_Witness ==
    /\ frame.drawn
    /\ ~F32AddIsExact(frame.timer, F32Int(3))
    /\ frame.sig3 = {"YELLOW"}
    /\ ExactBand(frame.timer, 3) = "GREEN"
    /\ frame.sig0 = {"RED"}

(***************************************************************************)
(* C6.  As claimed: at every tick, the tick of the reduction modulo 100000 *)
(* included, each signal shows for the wrapped trafficTimer the lamp it    *)
(* would show for a timer that only accumulates.                           *)
(***************************************************************************)
C6_WrapInvisible ==
    \A p \in Phases :
        drawTrafficSignal(trafficTimer, p) = drawTrafficSignal(unwrapped, p)

(***************************************************************************)
(* C9.  As claimed: 100 ticks after the start with no key pressed,         *)
(* trainPos = -240, boatPos = 0, trafficTimer = waterTime = 1.6.           *)
(***************************************************************************)
C9_ExactAfter100 ==
    (ticks = 100 /\ presses = 0) =>
        /\ trainPos = F32Int(-240)
        /\ boatPos = F32Int(0)
        /\ trafficTimer = F32Lit(8, 5, -23)
        /\ waterTime = F32Lit(8, 5, -23)

\* |x - c| <= 2^k, by float subtraction.
F32Near(x, c, k) ==
    LET d == F32Sub(x, c)
    IN  ~F32Gt(<<Abs(d[1]), d[2]>>, F32Round(1, k))

(***************************************************************************)
(* C9, amended.  100 ticks after the start with no key pressed the state   *)
(* is trainPos = -240.00113, boatPos = -0.00011158, trafficTimer =         *)
(* waterTime = 1.6000004: within 2^-9 (0.002) of -240, within 2^-13        *)
(* (0.00013) of 0 and within 2^-21 (0.0000005) of 1.6f; and no position    *)
(* has wrapped, nor the timer, in those 100 ticks.                         *)
(***************************************************************************)
C9_RoundedAfter100 ==
    /\ (ticks = 100 /\ presses = 0) =>
        /\ trainPos = <<-15728714, -16>>
        /\ boatPos = <<-15335424, -37>>
        /\ trafficTimer = <<13421776, -23>>
        /\ waterTime = <<13421776, -23>>
        /\ F32Near(trainPos, F32Int(-240), -9)
        /\ F32Near(boatPos, F32Int(0), -13)
        /\ F32Near(trafficTimer, F32Lit(8, 5, -23), -21)
        /\ F32Near(waterTime, F32Lit(8, 5, -23), -21)
    /\ (ticks <= 100 /\ presses = 0) =>
        /\ trainResets = 0
        /\ boatResets = 0
        /\ trafficTimer = unwrapped
        /\ F32Ge(trainPos, F32Int(-520))
        /\ F32Ge(boatPos, F32Int(-120))

\* The hundredth tick has run, with no key pressed, and its frame is drawn.
C9_Witness ==
    /\ ticks = 100
    /\ presses = 0
    /\ frame.drawn
    /\ frame.asof = written
    /\ ~redisplay

(***************************************************************************)
(* C11.  In every state, whatever keys have been pressed and however often *)
(* '+': -760 <= trainPos <= 1160, -150 <= boatPos <= 920 and               *)
(* 0 <= trafficTimer < 100000.                                             *)
(***************************************************************************)
C11_Bounds ==
    /\ F32Ge(trainPos, F32Int(-760)) /\ ~F32Gt(trainPos, F32Int(1160))
    /\ F32Ge(boatPos, F32Int(-150)) /\ ~F32Gt(boatPos, F32Int(920))
    /\ F32Ge(trafficTimer, F32Int(0)) /\ F32Lt(trafficTimer, F32Int(100000))

\* All three clamps have acted, the train's at the greatest speed '+' can
\* reach: the timer has been reduced, the boat and the train reset.
C11_Witness ==
    /\ trainSpeed = <<8388608, -1>>
    /\ trainPos = F32Int(-760)
    /\ trainResets > 9307 + 170
    /\ boatResets > 7157
    /\ F32Ge(unwrapped, F32Int(100000))
    /\ F32Lt(trafficTimer, F32Int(1))

\* The changes of colour of a cyclic red, green, yellow signal.
CyclicEdges ==
    { <<{"RED"}, {"GREEN"}>>, <<{"GREEN"}, {"YELLOW"}>>,
      <<{"YELLOW"}, {"RED"}>> }

(***************************************************************************)
(* C12.  As claimed: across every tick, the tick that reduces the timer    *)
(* modulo 100000 included, each signal keeps its colour or moves along     *)
(* RED -> GREEN, GREEN -> YELLOW or YELLOW -> RED.                         *)
(***************************************************************************)
C12_CyclicOrder ==
    [][TickStep =>
         \A p \in Phases :
             \/ drawTrafficSignal(trafficTimer', p)
                    = drawTrafficSignal(trafficTimer, p)
             \/ <<drawTrafficSignal(trafficTimer, p),
                   drawTrafficSignal(trafficTimer', p)>> \in CyclicEdges]_vars

\* A step that is neither a timer callback nor a key press: a display call.
DrawStep == ticks' = ticks /\ presses' = presses

\* The draw operations of a frame and their parameters.
FrameOps(f) == [f EXCEPT !.asof = <<>>]

(***************************************************************************)
(* C13.  As claimed: display writes none of the animation state, and a     *)
(* display call made in the animation state of the frame before it issues  *)
(* the same draw operations with the same parameters, whichever frame it   *)
(* is and whatever state the generator behind rand() is in.                *)
(***************************************************************************)
C13_RenderPure ==
    [][DrawStep =>
         /\ AnimationState' = AnimationState
         /\ (frame.drawn /\ frame.state = AnimationState) =>
                FrameOps(frame') = FrameOps(frame)]_vars

(***************************************************************************)
(* C14.  For the timer of every state, and in every frame drawn, each of   *)
(* the two signals (offsets 0 and 3) lights one lamp and the two lamps     *)
(* differ in colour; in particular the two are never both green.           *)
(***************************************************************************)
C14_NeverSameColour ==
    LET now0 == drawTrafficSignal(trafficTimer, F32Int(0))
        now3 == drawTrafficSignal(trafficTimer, F32Int(3))
    IN  /\ Cardinality(now0) = 1 /\ Cardinality(now3) = 1
        /\ now0 \cap now3 = {}
        /\ ~("GREEN" \in now0 /\ "GREEN" \in now3)
        /\ frame.drawn =>
              /\ frame.sig0 \cap frame.sig3 = {}
              /\ Cardinality(frame.sig0) = 1 /\ Cardinality(frame.sig3) = 1

\* A frame in which the rounded sum t + 3 has put signal 3 at the very
\* start of its yellow band while signal 0 is red, 4.6 hours into the run.
C14_Witness ==
    /\ frame.drawn
    /\ ticks = 1033519
    /\ frame.timer = trafficTimer
    /\ ~F32AddIsExact(trafficTimer, F32Int(3))
    /\ frame.sig0 = {"RED"}
    /\ frame.sig3 = {"YELLOW"}

(***************************************************************************)
(* C15.  As claimed: when update resets the train or the boat, the object  *)
(* lies entirely outside the viewport in the last frame drawn before the   *)
(* reset, and so it does in the frame drawn next after the reset.          *)
(***************************************************************************)
C15_WrapUnseen ==
    [][/\ (TickStep /\ trainResets' > trainResets /\ frame.drawn) =>
            ~TrainInView(frame.train)
       /\ (TickStep /\ boatResets' > boatResets /\ frame.drawn) =>
            ~BoatInView(frame.boat)
       /\ (DrawStep /\ frame' # frame /\ trainPos = F32Int(-760)) =>
            ~TrainInView(frame'.train)
       /\ (DrawStep /\ frame' # frame /\ boatPos = F32Int(-150)) =>
            ~BoatInView(frame'.boat)]_vars

\* The boat's half of C15 alone.
C15_BoatWrapUnseen ==
    [][/\ (TickStep /\ boatResets' > boatResets /\ frame.drawn) =>
            ~BoatInView(frame.boat)
       /\ (DrawStep /\ frame' # frame /\ boatPos = F32Int(-150)) =>
            ~BoatInView(frame'.boat)]_vars

(***************************************************************************)
(* C16.  As claimed: at every trainSpeed that '+' and '-' can reach,       *)
(* between two consecutive resets of the train (both at that speed: both   *)
(* after the checkpoint and its key presses) some completed tick has left  *)
(* a part of the train inside the viewport.                                *)
(***************************************************************************)
C16_LoopsThroughScreen ==
    [][(/\ TickStep
        /\ trainResets' > trainResets
        /\ \A c \in Checkpoints : trainResets # c.trainResets) =>
            trainSeen]_vars

====
